---- MODULE Spec2Model ----
(***************************************************************************)
(* zydec: rendering of one decoded x86 instruction as a line of C-like     *)
(* pseudo code (src/zydec/src/zydec.cpp).                                  *)
(*                                                                         *)
(* Text is modelled with TLA+ strings; one character is a string of        *)
(* length one.  The caller's output buffer is a byte array, and every      *)
(* call of zydec_WriteRaw is one step of the model.  64-bit quantities are *)
(* kept exactly, as four 16-bit limbs (least significant first).           *)
(***************************************************************************)
EXTENDS Integers, Sequences, FiniteSets, TLC

\* ------------------------------------------------------------------------
\* uint64_t / int64_t arithmetic on four 16-bit limbs <<l0, l1, l2, l3>>
\* ------------------------------------------------------------------------

LimbBase == 2^16

U64Zero == <<0, 0, 0, 0>>

\* a small natural number (below 2^31) as a uint64_t
U64Of(n) == <<n % LimbBase, (n \div LimbBase) % LimbBase, 0, 0>>

\* value == 0
U64IsZero(x) == x = U64Zero

\* x >= k for a small k (0 < k < 2^16): `tmp >= 10`, `tmp >= 0xF`
U64GeSmall(x, k) == x[4] # 0 \/ x[3] # 0 \/ x[2] # 0 \/ x[1] >= k

\* x / d and x % d for a small divisor d, by long division from the top limb
U64DivMod(x, d) ==
  LET q4 == x[4] \div d
      r4 == x[4] % d
      t3 == r4 * LimbBase + x[3]
      q3 == t3 \div d
      r3 == t3 % d
      t2 == r3 * LimbBase + x[2]
      q2 == t2 \div d
      r2 == t2 % d
      t1 == r2 * LimbBase + x[1]
      q1 == t1 \div d
      r1 == t1 % d
  IN  [quot |-> <<q1, q2, q3, q4>>, rem |-> r1]

U64Div(x, d) == U64DivMod(x, d).quot

U64Mod(x, d) == U64DivMod(x, d).rem

\* x + y modulo 2^64
U64Add(x, y) ==
  LET s1 == x[1] + y[1]
      s2 == x[2] + y[2] + (s1 \div LimbBase)
      s3 == x[3] + y[3] + (s2 \div LimbBase)
      s4 == x[4] + y[4] + (s3 \div LimbBase)
  IN  <<s1 % LimbBase, s2 % LimbBase, s3 % LimbBase, s4 % LimbBase>>

\* two's complement negation modulo 2^64
U64Neg(x) ==
  U64Add(<<LimbBase - 1 - x[1], LimbBase - 1 - x[2],
           LimbBase - 1 - x[3], LimbBase - 1 - x[4]>>, U64Of(1))

\* the sign bit of the value read as int64_t: `value < 0`
I64IsNegative(x) == x[4] >= 2^15

\* INT64_MIN, the one int64_t whose negation overflows
I64Min == <<0, 0, 0, 2^15>>

\* ------------------------------------------------------------------------
\* The static register name table
\* ------------------------------------------------------------------------

RegisterNameLut ==
  <<
    "", "(i8)a", "(i8)c", "(i8)d", "(i8)b", "(i8)(a >> 8)", "(i8)(c >> 8)",
    "(i8)(d >> 8)", "(i8)(b >> 8)", "(i8)stack_pointer", "(i8)bp", "(i8)si",
    "(i8)di", "(i8)r8", "(i8)r9", "(i8)r10", "(i8)r11", "(i8)r12", "(i8)r13",
    "(i8)r14", "(i8)r15", "(i16)a", "(i16)c", "(i16)d", "(i16)b",
    "(i16)stack_pointer", "(i16)bp", "(i16)si", "(i16)di", "(i16)r8",
    "(i16)r9", "(i16)r10", "(i16)r11", "(i16)r12", "(i16)r13", "(i16)r14",
    "(i16)r15", "(i32)ax", "(i32)cx", "(i32)dx", "(i32)bx",
    "(i32)stack_pointer", "(i32)bp", "(i32)si", "(i32)di", "(i32)r8",
    "(i32)r9", "(i32)r10", "(i32)r11", "(i32)r12", "(i32)r13", "(i32)r14",
    "(i32)r15", "(i64)a", "(i64)c", "(i64)d", "(i64)b", "(i64)stack_pointer",
    "(i64)bp", "(i64)si", "(i64)di", "(i64)r8", "(i64)r9", "(i64)r10",
    "(i64)r11", "(i64)r12", "(i64)r13", "(i64)r14", "(i64)r15", "(float)s0",
    "(float)s1", "(float)s2", "(float)s3", "(float)s4", "(float)s5",
    "(float)s6", "(float)s7", "x87control", "x87status", "x87tag",
    "(float)mm0", "(float)mm1", "(float)mm2", "(float)mm3", "(float)mm4",
    "(float)mm5", "(float)mm6", "(float)mm7", "(m128)x0", "(m128)x1",
    "(m128)x2", "(m128)x3", "(m128)x4", "(m128)x5", "(m128)x6", "(m128)x7",
    "(m128)x8", "(m128)x9", "(m128)x10", "(m128)x11", "(m128)x12",
    "(m128)x13", "(m128)x14", "(m128)x15", "(m128)x16", "(m128)x17",
    "(m128)x18", "(m128)x19", "(m128)x20", "(m128)x21", "(m128)x22",
    "(m128)x23", "(m128)x24", "(m128)x25", "(m128)x26", "(m128)x27",
    "(m128)x28", "(m128)x29", "(m128)x30", "(m128)x31", "(m256)y0",
    "(m256)y1", "(m256)y2", "(m256)y3", "(m256)y4", "(m256)y5", "(m256)y6",
    "(m256)y7", "(m256)y8", "(m256)y9", "(m256)y10", "(m256)y11",
    "(m256)y12", "(m256)y13", "(m256)y14", "(m256)y15", "(m256)y16",
    "(m256)y17", "(m256)y18", "(m256)y19", "(m256)y20", "(m256)y21",
    "(m256)y22", "(m256)y23", "(m256)y24", "(m256)y25", "(m256)y26",
    "(m256)y27", "(m256)y28", "(m256)y29", "(m256)y30", "(m256)y31",
    "(m512)z0", "(m512)z1", "(m512)z2", "(m512)z3", "(m512)z4", "(m512)z5",
    "(m512)z6", "(m512)z7", "(m512)z8", "(m512)z9", "(m512)z10", "(m512)z11",
    "(m512)z12", "(m512)z13", "(m512)z14", "(m512)z15", "(m512)z16",
    "(m512)z17", "(m512)z18", "(m512)z19", "(m512)z20", "(m512)z21",
    "(m512)z22", "(m512)z23", "(m512)z24", "(m512)z25", "(m512)z26",
    "(m512)z27", "(m512)z28", "(m512)z29", "(m512)z30", "(m512)z31",
    "(matrix_tile)t0", "(matrix_tile)t1", "(matrix_tile)t2",
    "(matrix_tile)t3", "(matrix_tile)t4", "(matrix_tile)t5",
    "(matrix_tile)t6", "(matrix_tile)t7", "flags", "eflags", "rflags",
    "instruction_pointer", "instruction_pointer32", "instruction_pointer64",
    "extra_segment", "code_segment", "stack_segment", "data_segment",
    "f_segment", "g_segment", "table_gdtr", "table_ldtr", "table_idtr",
    "table_tr", "test_tr0", "test_tr1", "test_tr2", "test_tr3", "test_tr4",
    "test_tr5", "test_tr6", "test_tr7", "control_cr0", "control_cr1",
    "control_cr2", "control_cr3", "control_cr4", "control_cr5",
    "control_cr6", "control_cr7", "control_cr8", "control_cr9",
    "control_cr10", "control_cr11", "control_cr12", "control_cr13",
    "control_cr14", "control_cr15", "debug_dr0", "debug_dr1", "debug_dr2",
    "debug_dr3", "debug_dr4", "debug_dr5", "debug_dr6", "debug_dr7",
    "debug_dr8", "debug_dr9", "debug_dr10", "debug_dr11", "debug_dr12",
    "debug_dr13", "debug_dr14", "debug_dr15", "mask_k0", "mask_k1",
    "mask_k2", "mask_k3", "mask_k4", "mask_k5", "mask_k6", "mask_k7",
    "bound_bnd0", "bound_bnd1", "bound_bnd2", "bound_bnd3", "bound_bndcfg",
    "bound_bndstatus", "mxcsr", "pkru", "xcr0", "uif"
  >>

\* sizeof(RegisterNameLut) / sizeof(RegisterNameLut[0])
RegisterNameLutCount == Len(RegisterNameLut)

\* the bytes at RegisterNameLut[reg]; an index past the table reads whatever
\* follows it in memory
RegisterNameLutAt(reg) ==
  IF reg + 1 \in DOMAIN RegisterNameLut THEN RegisterNameLut[reg + 1] ELSE "#"

\* ------------------------------------------------------------------------
\* Characters and C strings
\* ------------------------------------------------------------------------

\* the terminating null byte
NUL == "NUL"

\* a byte that holds no defined value (uninitialised or stale memory)
Garbage == "#"

\* text[i], i from 0, for i < strlen(text)
CharAt(text, i) == SubSeq(text, i + 1, i + 1)

\* the null-terminated string that starts at index p of the byte array mem
RECURSIVE CStr(_, _)
CStr(mem, p) ==
  IF p \notin DOMAIN mem \/ mem[p] = NUL THEN "" ELSE mem[p] \o CStr(mem, p + 1)

\* ------------------------------------------------------------------------
\* One call of zydec_WriteRaw, as the callers below issue it
\* ------------------------------------------------------------------------

\* what the build does with the undefined behaviour of a render: "stored" (an
\* out-of-bounds store lands in adjacent memory and is read back, a signed
\* overflow wraps), "clobbered" (the out-of-bounds byte does not survive until
\* it is read) or "trap" (the process is aborted)
UBOutcomes == {"stored", "clobbered", "trap"}

\* a zydec_WriteRaw(text) call issued by function fn
Write(fn, text, reg, val) ==
  [kind |-> "write", fn |-> fn, text |-> text, reg |-> reg, val |-> val,
   lut |-> -1, low |-> 0, trapAfter |-> FALSE, operand |-> -1]

\* zydec_WriteRaw(text) with a string literal
Raw(text) == Write("WriteRaw", text, -1, U64Zero)

\* `return false` without a write
Fail(fn, reg) ==
  [kind |-> "fail", fn |-> fn, text |-> "", reg |-> reg, val |-> U64Zero,
   lut |-> -1, low |-> 0, trapAfter |-> FALSE, operand |-> -1]

\* the process is aborted
Trap(fn, val) ==
  [kind |-> "trap", fn |-> fn, text |-> "", reg |-> -1, val |-> val,
   lut |-> -1, low |-> 0, trapAfter |-> FALSE, operand |-> -1]

\* ------------------------------------------------------------------------
\* Numeric formatters
\* ------------------------------------------------------------------------

\* char buffer[20] of zydec_WriteUInt
UIntScratchSize == 20

\* char buffer[2 + 2 * 8 + 1] of zydec_WriteHex
HexScratchSize == 2 + 2 * 8 + 1

\* (char)('0' + d) for a digit d
DigitChar(d) == CharAt("0123456789", d)

\* lut[n] of zydec_WriteHex
HexLut(n) == CharAt("0123456789ABCDEF", n)

\* *bufFromEnd = c, where the scratch array and the byte below it are mem
Store(mem, p, c) == IF p \in DOMAIN mem THEN [mem EXCEPT ![p] = c] ELSE mem

\* the while loop of zydec_WriteUInt
RECURSIVE UIntLoop(_, _, _)
UIntLoop(mem, bufFromEnd, tmp) ==
  IF U64GeSmall(tmp, 10)
  THEN UIntLoop(Store(mem, bufFromEnd, DigitChar(U64Mod(tmp, 10))),
                bufFromEnd - 1, U64Div(tmp, 10))
  ELSE [mem |-> mem, bufFromEnd |-> bufFromEnd, tmp |-> tmp]

\* zydec_WriteUInt up to its call of zydec_WriteRaw: the scratch array (index
\* -1 is the byte below it) and the pointer handed on
UIntScratch(value) ==
  LET mem0 == [i \in -1 .. UIntScratchSize - 1 |->
                 IF i = UIntScratchSize - 1 THEN NUL ELSE Garbage]
      l == UIntLoop(mem0, UIntScratchSize - 2, value)
  IN  IF ~U64IsZero(l.tmp)
      THEN [mem |-> Store(l.mem, l.bufFromEnd, DigitChar(U64Mod(l.tmp, 10))),
            bufFromEnd |-> l.bufFromEnd]
      ELSE [mem |-> l.mem, bufFromEnd |-> l.bufFromEnd + 1]

\* the string zydec_WriteRaw reads at bufFromEnd; a byte stored below the
\* array is read back only if the build kept it
ScratchText(s, ub) ==
  IF s.bufFromEnd >= 0 THEN CStr(s.mem, s.bufFromEnd)
  ELSE IF ub = "clobbered" THEN Garbage \o CStr(s.mem, 0)
  ELSE CStr(s.mem, s.bufFromEnd)

zydec_WriteUInt(value, ub) ==
  LET s == UIntScratch(value)
  IN  <<[Write("WriteUInt", ScratchText(s, ub), -1, value) EXCEPT
           !.low = s.bufFromEnd,
           !.trapAfter = (s.bufFromEnd < 0 /\ ub = "trap")]>>

\* the while loop of zydec_WriteHex
RECURSIVE HexLoop(_, _, _)
HexLoop(mem, bufFromEnd, tmp) ==
  IF U64GeSmall(tmp, 15)
  THEN HexLoop(Store(mem, bufFromEnd, HexLut(tmp[1] % 16)),
               bufFromEnd - 1, U64Div(tmp, 16))
  ELSE [mem |-> mem, bufFromEnd |-> bufFromEnd, tmp |-> tmp]

\* zydec_WriteHex up to its call of zydec_WriteRaw
HexScratch(value) ==
  LET mem0 == [i \in -1 .. HexScratchSize - 1 |->
                 IF i = HexScratchSize - 1 THEN NUL ELSE Garbage]
      l == HexLoop(mem0, HexScratchSize - 2, value)
      m == IF ~U64IsZero(l.tmp)
           THEN [mem |-> Store(l.mem, l.bufFromEnd, HexLut(l.tmp[1] % 16)),
                 bufFromEnd |-> l.bufFromEnd - 1]
           ELSE [mem |-> l.mem, bufFromEnd |-> l.bufFromEnd]
  IN  [mem |-> Store(Store(m.mem, m.bufFromEnd, "x"), m.bufFromEnd - 1, "0"),
       bufFromEnd |-> m.bufFromEnd - 1]

zydec_WriteHex(value, ub) ==
  LET s == HexScratch(value)
  IN  <<[Write("WriteHex", ScratchText(s, ub), -1, value) EXCEPT
           !.low = s.bufFromEnd,
           !.trapAfter = (s.bufFromEnd < 0 /\ ub = "trap")]>>

\* zydec_WriteInt: -value overflows for INT64_MIN, where a build either wraps
\* or traps
zydec_WriteInt(value, ub) ==
  IF I64IsNegative(value)
  THEN <<Write("WriteInt", "-", -1, value)>>
       \o (IF value = I64Min /\ ub = "trap"
           THEN <<Trap("WriteInt", value)>>
           ELSE zydec_WriteUInt(U64Neg(value), ub))
  ELSE zydec_WriteUInt(value, ub)

\* ------------------------------------------------------------------------
\* Register resolver and operand formatter
\* ------------------------------------------------------------------------

ZYDIS_REGISTER_NONE == 0

\* the bounds check of zydec_WriteRegister off by one: the first id past the
\* table passes
WriteRegisterOffByOne(reg) ==
  IF reg > RegisterNameLutCount
  THEN <<Fail("WriteRegister", reg)>>
  ELSE <<[Write("WriteRegister", RegisterNameLutAt(reg), reg, U64Zero)
            EXCEPT !.lut = reg]>>

zydec_WriteRegister(reg) ==
  IF reg >= RegisterNameLutCount
  THEN <<Fail("WriteRegister", reg)>>
  ELSE <<[Write("WriteRegister", RegisterNameLutAt(reg), reg, U64Zero)
            EXCEPT !.lut = reg]>>

\* The formatter and the translator are sequences of calls, each guarded by
\* ERROR_CHECK.  A sequence is written as a list of parts: a literal handed to
\* zydec_WriteRaw, a call of one of the functions above, an operand of the
\* instruction, or a `return false`.
Part(kind, text, reg, val) ==
  [kind |-> kind, text |-> text, reg |-> reg, val |-> val, operand |-> -1]

\* ERROR_CHECK(zydec_WriteRaw(..., text))
Lit(text) == Part("lit", text, -1, U64Zero)

\* ERROR_CHECK(zydec_WriteRegister(..., reg))
PartRegister(reg) == Part("register", "", reg, U64Zero)

\* ERROR_CHECK(zydec_WriteInt(..., value))
PartInt(value) == Part("int", "", -1, value)

\* ERROR_CHECK(zydec_WriteUInt(..., value))
PartUInt(value) == Part("uint", "", -1, value)

\* ERROR_CHECK(zydec_WriteHex(..., value))
PartHex(value) == Part("hex", "", -1, value)

\* ERROR_CHECK(zydec_WriteOperand(..., &pOperands[i], virtualAddress))
PartOperand(i) == Part("operand", "", i, U64Zero)

\* return false
PartFail == Part("fail", "", -1, U64Zero)

\* the memory case rendering the index term whenever an index is present:
\* after a displacement and in every addressing mode
WriteMemoryOperandWithIndex(mem) ==
  <<Lit(IF mem.type = "AGEN" THEN "(" ELSE "*(")>>
  \o (IF mem.type \in {"MEM", "MIB", "AGEN"}
      THEN <<PartRegister(mem.segment), Lit(": "), PartRegister(mem.base)>>
           \o (IF mem.disp.has_displacement
               THEN <<Lit(" + "), PartInt(mem.disp.value)>>
               ELSE <<>>)
           \o (IF mem.index # ZYDIS_REGISTER_NONE
               THEN <<Lit(" + ")>>
                    \o (IF mem.scale # 1 THEN <<Lit("(")>> ELSE <<>>)
                    \o <<PartRegister(mem.index)>>
                    \o (IF mem.scale # 1
                        THEN <<Lit(" * "), PartUInt(U64Of(mem.scale)),
                               Lit(")")>>
                        ELSE <<>>)
               ELSE <<>>)
           \o <<Lit(")")>>
      ELSE <<PartFail>>)

\* case ZYDIS_OPERAND_TYPE_MEMORY of zydec_WriteOperand
WriteMemoryOperand(mem) ==
  <<Lit(IF mem.type = "AGEN" THEN "(" ELSE "*(")>>
  \o CASE mem.type = "MEM" ->
            <<PartRegister(mem.segment), Lit(": "), PartRegister(mem.base)>>
            \o (IF mem.disp.has_displacement
                THEN <<Lit(" + "), PartInt(mem.disp.value)>>
                ELSE IF mem.index # ZYDIS_REGISTER_NONE
                THEN <<Lit(" + ")>>
                     \o (IF mem.scale # 1 THEN <<Lit("(")>> ELSE <<>>)
                     \o <<PartRegister(mem.index)>>
                     \o (IF mem.scale # 1
                         THEN <<Lit(" * "), PartUInt(U64Of(mem.scale)),
                                Lit(")")>>
                         ELSE <<>>)
                ELSE <<>>)
            \o <<Lit(")")>>
       [] mem.type \in {"MIB", "AGEN"} ->
            <<PartRegister(mem.segment), Lit(": "), PartRegister(mem.base)>>
            \o (IF mem.disp.has_displacement
                THEN <<Lit(" + "), PartInt(mem.disp.value)>>
                ELSE <<>>)
            \o <<Lit(")")>>
       [] OTHER -> <<PartFail>>

\* case ZYDIS_OPERAND_TYPE_IMMEDIATE of zydec_WriteOperand
WriteImmediateOperand(imm, virtualAddress) ==
  IF imm.is_relative
  THEN <<PartHex(U64Add(virtualAddress, imm.value))>>
  ELSE IF imm.is_signed
  THEN <<PartInt(imm.value)>>
  ELSE <<PartUInt(imm.value)>>

zydec_WriteOperand(pOperand, virtualAddress) ==
  CASE pOperand.type = "REGISTER" -> <<PartRegister(pOperand.reg)>>
    [] pOperand.type = "MEMORY" -> WriteMemoryOperand(pOperand.mem)
    [] pOperand.type = "IMMEDIATE" ->
         WriteImmediateOperand(pOperand.imm, virtualAddress)
    [] OTHER -> <<PartFail>>

\* ------------------------------------------------------------------------
\* Mnemonic translator: the switch of zydec_TranslateInstructionWithoutContext
\* ------------------------------------------------------------------------

\* pOperands[i]: the caller's array holds operandCount operands, and a read
\* past it yields whatever the memory behind the array holds
OperandAt(call, i) ==
  IF i < Len(call.pOperands) THEN call.pOperands[i + 1] ELSE call.beyond

\* src <token> dst: the operands swapped
TwoOperandTemplateSwapped(token) ==
  <<PartOperand(1), Lit(token), PartOperand(0)>>

\* dst <token> src
TwoOperandTemplate(token) == <<PartOperand(0), Lit(token), PartOperand(1)>>

\* <head> target, the comment left out
JumpTemplateNoComment(head, tail) == <<Lit(head), PartOperand(0)>>

\* <head> target [<tail>]
JumpTemplate(head, tail) ==
  <<Lit(head), PartOperand(0)>> \o (IF tail = "" THEN <<>> ELSE <<Lit(tail)>>)

\* case ZYDIS_MNEMONIC_TEST, ZYDIS_MNEMONIC_CMP
CompareTemplate(m) ==
  <<Lit("compare("), PartOperand(0), Lit(", "), PartOperand(1)>>
  \o (IF m = "TEST"
      THEN <<Lit(") // set carry_flag, parity_flag, zero_flag")>>
      ELSE IF m = "CMP"
      THEN <<Lit(") // set carry_flag, overflow_flag, signed_flag, zero_flag, aux_carry_flag and parity_flag")>>
      ELSE <<PartFail>>)

AlignedMoveMnemonics ==
  {"MOVAPS", "MOVAPD", "VMOVDQA", "VMOVDQA32", "VMOVDQA64"}

UnalignedMoveMnemonics ==
  {"MOVUPS", "MOVUPD", "MOVQ", "LDDQU", "VMOVD", "VMOVDQU", "VMOVDQU16",
   "VMOVDQU32", "VMOVDQU64", "VMOVDQU8"}

\* the inner switch of the aligned move family
AlignedSuffix(m) ==
  CASE m = "MOVAPS" -> "_ps("
    [] m = "MOVAPD" -> "_pd("
    [] m = "VMOVDQA" -> "_si("
    [] m = "VMOVDQA32" -> "_epi32("
    [] m = "VMOVDQA64" -> "_epi64("
    [] OTHER -> "("

\* the inner switch of the unaligned move family
UnalignedSuffix(m) ==
  CASE m = "MOVAPS" -> "_ps("
    [] m = "MOVAPD" -> "_pd("
    [] m = "MOVQ" -> "_si64("
    [] m = "LDDQU" -> "_cross_cache_line_si("
    [] m = "VMOVDQU" -> "_si("
    [] m = "VMOVDQU16" -> "_epi16("
    [] m = "VMOVDQU32" -> "_epi32("
    [] m = "VMOVDQU64" -> "_epi64("
    [] m = "VMOVDQU8" -> "_epi8("
    [] OTHER -> "("

\* the loop with operandIndex <= pInstruction->operand_count
RECURSIVE OperandLoopInclusive(_, _)
OperandLoopInclusive(operand_count, operandIndex) ==
  IF operandIndex <= operand_count
  THEN (IF operandIndex > 1 THEN <<Lit(", ")>> ELSE <<>>)
       \o <<PartOperand(operandIndex)>>
       \o OperandLoopInclusive(operand_count, operandIndex + 1)
  ELSE <<>>

\* for (operandIndex = 1; operandIndex < pInstruction->operand_count; ...)
RECURSIVE OperandLoop(_, _)
OperandLoop(operand_count, operandIndex) ==
  IF operandIndex < operand_count
  THEN (IF operandIndex > 1 THEN <<Lit(", ")>> ELSE <<>>)
       \o <<PartOperand(operandIndex)>>
       \o OperandLoop(operand_count, operandIndex + 1)
  ELSE <<>>

\* the aligned and the unaligned vector move families
VectorMoveTemplate(call, prefix, suffix) ==
  LET isStore == OperandAt(call, 0).type \in {"MEMORY", "POINTER"}
      isLoad == ~isStore /\ OperandAt(call, 1).type \in {"MEMORY", "POINTER"}
      isReg2RegMove == ~isStore /\ ~isLoad
  IN  (IF isStore THEN <<Lit(prefix \o "store")>>
       ELSE IF isLoad THEN <<Lit(prefix \o "load")>>
       ELSE <<>>)
      \o (IF ~isReg2RegMove THEN <<Lit(suffix)>> ELSE <<>>)
      \o <<PartOperand(0)>>
      \o <<Lit(IF isReg2RegMove THEN " = " ELSE ", ")>>
      \o OperandLoop(call.operand_count, 1)
      \o (IF ~isReg2RegMove THEN <<Lit(")")>> ELSE <<>>)

VectorArithmeticMnemonics ==
  {
    "PAND", "VPAND", "VPANDQ", "VPANDD", "PANDN", "VPANDN", "VPANDNQ",
    "VPANDND", "PCMPEQB", "PCMPEQW", "PCMPEQD", "PCMPEQQ", "VPCMPEQB",
    "VPCMPEQW", "VPCMPEQD", "VPCMPEQQ", "PCMPGTB", "PCMPGTW", "PCMPGTD",
    "PCMPGTQ", "VPCMPGTB", "VPCMPGTW", "VPCMPGTD", "VPCMPGTQ", "PACKUSWB",
    "PACKUSDW", "VPACKUSWB", "VPACKUSDW", "PACKSSWB", "PACKSSDW",
    "VPACKSSWB", "VPACKSSDW", "PADDB", "PADDW", "PADDD", "PADDQ", "VPADDB",
    "VPADDW", "VPADDD", "VPADDQ", "PADDSB", "PADDSW", "VPADDSB", "VPADDSW",
    "EMMS", "PMADDWD", "VPMADDWD", "PMULHW", "VPMULHW", "PMULLW", "VPMULLW",
    "POR", "VPOR", "VPORD", "VPORQ", "PABSW", "VPABSW", "PABSB", "VPABSB",
    "PABSD", "VPABSD", "ADDSUBPS", "VADDSUBPS", "ADDSUBPD", "VADDSUBPD",
    "PALIGNR", "VPALIGNR", "PAVGB", "VPAVGB", "PAVGW", "VPAVGW", "PBLENDW",
    "VPBLENDW", "PBLENDVB", "VPBLENDVB", "VPBLENDD", "BLENDPS", "VBLENDPS",
    "BLENDPD", "VBLENDPD", "BLENDVPS", "VBLENDVPS", "BLENDVPD", "VBLENDVPD",
    "VBROADCASTF128", "VBROADCASTF32X2", "VBROADCASTF32X4",
    "VBROADCASTF32X8", "VBROADCASTF64X2", "VBROADCASTF64X4",
    "VBROADCASTI128", "VBROADCASTI32X2", "VBROADCASTI32X4",
    "VBROADCASTI32X8", "VBROADCASTI64X2", "VBROADCASTI64X4", "VBROADCASTSD",
    "VBROADCASTSS", "VPBROADCASTB", "VPBROADCASTD", "VPBROADCASTMB2Q",
    "VPBROADCASTMW2D", "VPBROADCASTQ", "VPBROADCASTW"
  }

\* the inner switch of the vector arithmetic family
VectorIntrinsicName(m) ==
  CASE m \in {"PAND", "VPAND"} -> "_mm_and_si("
    [] m = "VPANDQ" -> "_mm_and_epi64("
    [] m = "VPANDD" -> "_mm_and_epi32("
    [] m \in {"PANDN", "VPANDN"} -> "_mm_andnot_si("
    [] m = "VPANDNQ" -> "_mm_andnot_epi64("
    [] m = "VPANDND" -> "_mm_andnot_epi32("
    [] m \in {"PCMPEQB", "VPCMPEQB"} -> "_mm_cmpeq_epi8("
    [] m \in {"PCMPEQW", "VPCMPEQW"} -> "_mm_cmpeq_epi16("
    [] m \in {"PCMPEQD", "VPCMPEQD"} -> "_mm_cmpeq_epi32("
    [] m \in {"PCMPEQQ", "VPCMPEQQ"} -> "_mm_cmpeq_epi64("
    [] m \in {"PCMPGTB", "VPCMPGTB"} -> "_mm_cmpgt_epi8("
    [] m \in {"PCMPGTW", "VPCMPGTW"} -> "_mm_cmpgt_epi16("
    [] m \in {"PCMPGTD", "VPCMPGTD"} -> "_mm_cmpgt_epi32("
    [] m \in {"PCMPGTQ", "VPCMPGTQ"} -> "_mm_cmpgt_epi64("
    [] m \in {"PACKUSWB", "VPACKUSWB"} -> "_mm_packus_epu16_to_epi8("
    [] m \in {"PACKUSDW", "VPACKUSDW"} -> "_mm_packus_epu32_to_epi16("
    [] m \in {"PACKSSWB", "VPACKSSWB"} -> "_mm_packs_epu16_to_epi8("
    [] m \in {"PACKSSDW", "VPACKSSDW"} -> "_mm_packs_epu32_to_epi16("
    [] m \in {"PADDB", "VPADDB"} -> "_mm_add_epi8("
    [] m \in {"PADDW", "VPADDW"} -> "_mm_add_epi16("
    [] m \in {"PADDD", "VPADDD"} -> "_mm_add_epi32("
    [] m \in {"PADDQ", "VPADDQ"} -> "_mm_add_epi64("
    [] m \in {"PADDSB", "PADDSW"} -> "_mm_adds_epi8("
    [] m \in {"VPADDSB", "VPADDSW"} -> "_mm_adds_epi16("
    [] m = "EMMS" -> "_mm_empty("
    [] m \in {"PMADDWD", "VPMADDWD"} -> "_mm_pmadd_epi16("
    [] m \in {"PMULHW", "VPMULHW"} -> "_mm_mulhi_epi16("
    [] m \in {"PMULLW", "VPMULLW"} -> "_mm_mullo_epi16("
    [] m \in {"POR", "VPOR"} -> "_mm_or_si("
    [] m = "VPORD" -> "_mm_or_epi32("
    [] m = "VPORQ" -> "_mm_or_epi64("
    [] m \in {"PABSB", "VPABSB"} -> "_mm_abs_epi16("
    [] m \in {"PABSW", "VPABSW"} -> "_mm_abs_epi16("
    [] m \in {"PABSD", "VPABSD"} -> "_mm_abs_epi32("
    [] m \in {"ADDSUBPS", "VADDSUBPS"} -> "_mm_addsub_ps("
    [] m \in {"ADDSUBPD", "VADDSUBPD"} -> "_mm_addsub_pd("
    [] m \in {"PALIGNR", "VPALIGNR"} -> "_mm_alignr_epi8("
    [] m \in {"PAVGB", "VPAVGB"} -> "_mm_avg_epu8("
    [] m \in {"PAVGW", "VPAVGW"} -> "_mm_avg_epu16("
    [] m \in {"PBLENDW", "VPBLENDW"} -> "_mm_blend_epi16("
    [] m = "VPBLENDD" -> "_mm_blend_epi32("
    [] m \in {"BLENDPS", "VBLENDPS"} -> "_mm_blend_ps("
    [] m \in {"BLENDPD", "VBLENDPD"} -> "_mm_blend_pd("
    [] m \in {"PBLENDVB", "VPBLENDVB"} -> "_mm_blendv_epi8("
    [] m \in {"BLENDVPS", "VBLENDVPS"} -> "_mm_blendv_ps("
    [] m \in {"BLENDVPD", "VBLENDVPD"} -> "_mm_blendv_pd("
    [] m = "VBROADCASTF128" -> "_mm_broadcast_f128("
    [] m = "VBROADCASTF32X2" -> "_mm_broadcast_f32x2("
    [] m = "VBROADCASTF32X4" -> "_mm_broadcast_f32x4("
    [] m = "VBROADCASTF32X8" -> "_mm_broadcast_f32x8("
    [] m = "VBROADCASTF64X2" -> "_mm_broadcast_f64x2("
    [] m = "VBROADCASTF64X4" -> "_mm_broadcast_f64x4("
    [] m = "VBROADCASTI128" -> "_mm_broadcastsi128_si256("
    [] m = "VBROADCASTI32X2" -> "_mm_broadcast_i32x2("
    [] m = "VBROADCASTI32X4" -> "_mm_broadcast_i32x4("
    [] m = "VBROADCASTI32X8" -> "_mm_broadcast_i32x8("
    [] m = "VBROADCASTI64X2" -> "_mm_broadcast_i64x2("
    [] m = "VBROADCASTI64X4" -> "_mm_broadcast_i64x4("
    [] m = "VBROADCASTSD" -> "_mm_broadcast_sd("
    [] m = "VBROADCASTSS" -> "_mm_broadcast_ss("
    [] m = "VPBROADCASTB" -> "_mm_broadcast_epi8("
    [] m = "VPBROADCASTW" -> "_mm_broadcast_epi16("
    [] m = "VPBROADCASTD" -> "_mm_broadcast_epi32("
    [] m = "VPBROADCASTQ" -> "_mm_broadcast_epi64("
    [] m = "VPBROADCASTMB2Q" -> "_mm_broadcastmb_epi64("
    [] m = "VPBROADCASTMW2D" -> "_mm_broadcastmw_epi32("
    [] OTHER -> "_mm_??_("

VectorArithmeticTemplate(call) ==
  <<PartOperand(0), Lit(" = "), Lit(VectorIntrinsicName(call.mnemonic))>>
  \o OperandLoop(call.operand_count, 1)
  \o <<Lit(")")>>

\* the JS case ending in `return true` like its commented neighbours
EarlyReturnWithSign ==
  {"TEST", "CMP", "JB", "JBE", "JL", "JLE", "JNB", "JNBE", "JNL", "JNLE",
   "JNZ", "JS", "JZ"}

\* the compare case ending in `break`: only the commented jumps return early
EarlyReturnJumpsOnly ==
  {"JB", "JBE", "JL", "JLE", "JNB", "JNBE", "JNL", "JNLE", "JNZ", "JZ"}

\* the cases that end in `return true` instead of `break`
EarlyReturnMnemonics ==
  {"TEST", "CMP", "JB", "JBE", "JL", "JLE", "JNB", "JNBE", "JNL", "JNLE",
   "JNZ", "JZ"}

\* one case of the switch, up to its `break` or `return true`
CaseBody(call) ==
  LET m == call.mnemonic
  IN  CASE m = "MOV" -> TwoOperandTemplate(" = ")
        [] m = "LEA" -> TwoOperandTemplate(" = &")
        [] m \in {"TEST", "CMP"} -> CompareTemplate(m)
        [] m = "CALL" -> <<Lit("("), PartOperand(0), Lit(")()")>>
        [] m = "JMP" -> JumpTemplate("goto ", "")
        [] m = "JB" -> JumpTemplate("if (carry_flag) goto ", "; // if below")
        [] m = "JBE" ->
             JumpTemplate("if (carry_flag || zero_flag) goto ",
                          "; // if below or equal")
        [] m = "JCXZ" -> JumpTemplate("if ((u16)c == 0) goto ", "")
        [] m = "JECXZ" -> JumpTemplate("if ((u32)c == 0) goto ", "")
        [] m = "JL" ->
             JumpTemplate("if (sign_flag != overflow_flag) goto ",
                          "; // if less")
        [] m = "JLE" ->
             JumpTemplate("if (zero_flag || sign_flag != overflow_flag) goto ",
                          "; // if less or equal")
        [] m = "JNB" ->
             JumpTemplate("if (!carry_flag) goto ", "; // if not below")
        [] m = "JNBE" ->
             JumpTemplate("if (!carry_flag && !zero_flag) goto ",
                          "; // if not below or equal")
        [] m = "JNL" ->
             JumpTemplate("if (sign_flag && overflow_flag) goto ",
                          "; // if not less")
        [] m = "JNLE" ->
             JumpTemplate("if (!zero_flag && sign_flag == overflow_flag) goto ",
                          "; // if not less or equal")
        [] m = "JNO" -> JumpTemplate("if (!overflow_flag) goto ", "")
        [] m = "JNP" -> JumpTemplate("if (!parity_flag) goto ", "")
        [] m = "JNS" -> JumpTemplate("if (!sign_flag) goto ", "")
        [] m = "JNZ" ->
             JumpTemplate("if (!zero_flag) goto ",
                          "; // if not zero / not equal")
        [] m = "JO" -> JumpTemplate("if (overflow_flag) goto ", "")
        [] m = "JP" -> JumpTemplate("if (parity_flag) goto ", "")
        [] m = "JS" -> JumpTemplate("if (sign_flag) goto ", "")
        [] m = "JZ" ->
             JumpTemplate("if (zero_flag) goto ", "; // if zero / equal")
        [] m = "SUB" -> TwoOperandTemplate(" -= ")
        [] m = "ADD" -> TwoOperandTemplate(" += ")
        [] m = "AND" -> TwoOperandTemplate(" &= ")
        [] m = "OR" -> TwoOperandTemplate(" |= ")
        [] m \in AlignedMoveMnemonics ->
             VectorMoveTemplate(call, "_mm_aligned_", AlignedSuffix(m))
        [] m \in UnalignedMoveMnemonics ->
             VectorMoveTemplate(call, "_mm_unaligned_", UnalignedSuffix(m))
        [] m \in VectorArithmeticMnemonics -> VectorArithmeticTemplate(call)
        [] OTHER -> <<>>

\* the mnemonics the switch has a case for
SupportedMnemonics ==
  {"MOV", "LEA", "TEST", "CMP", "CALL", "JMP", "JB", "JBE", "JCXZ", "JECXZ",
   "JL", "JLE", "JNB", "JNBE", "JNL", "JNLE", "JNO", "JNP", "JNS", "JNZ",
   "JO", "JP", "JS", "JZ", "SUB", "ADD", "AND", "OR"}
  \cup AlignedMoveMnemonics \cup UnalignedMoveMnemonics
  \cup VectorArithmeticMnemonics

\* the calls of a translation in order, the trailing ";" of the cases that
\* `break` included
TranslationParts(call) ==
  CaseBody(call)
  \o (IF call.mnemonic \in EarlyReturnMnemonics THEN <<>> ELSE <<Lit(";")>>)

\* the calls made for pOperands[operandIndex], each marked with the index of
\* the operand zydec_WriteOperand dereferences to make it
OfOperand(seq, operandIndex) ==
  [i \in DOMAIN seq |-> [seq[i] EXCEPT !.operand = operandIndex]]

\* the parts with each operand replaced by the calls zydec_WriteOperand makes
\* for it
RECURSIVE ExpandOperands(_, _)
ExpandOperands(call, parts) ==
  IF parts = <<>> THEN <<>>
  ELSE (IF Head(parts).kind = "operand"
        THEN OfOperand(zydec_WriteOperand(OperandAt(call, Head(parts).reg),
                                          call.virtualAddress),
                       Head(parts).reg)
        ELSE <<Head(parts)>>)
       \o ExpandOperands(call, Tail(parts))

\* the zydec_WriteRaw calls the parts come down to
RECURSIVE ExpandWrites(_, _)
ExpandWrites(parts, ub) ==
  IF parts = <<>> THEN <<>>
  ELSE LET p == Head(parts)
       IN  OfOperand(CASE p.kind = "lit" -> <<Raw(p.text)>>
                       [] p.kind = "register" -> zydec_WriteRegister(p.reg)
                       [] p.kind = "int" -> zydec_WriteInt(p.val, ub)
                       [] p.kind = "uint" -> zydec_WriteUInt(p.val, ub)
                       [] p.kind = "hex" -> zydec_WriteHex(p.val, ub)
                       [] OTHER -> <<Fail("WriteOperand", -1)>>,
                     p.operand)
           \o ExpandWrites(Tail(parts), ub)

\* the operands whose type a vector move case reads before its first call:
\* pOperands[0].type, and pOperands[1].type unless operand 0 decides the form
TypeReads(call) ==
  IF call.mnemonic \in AlignedMoveMnemonics \cup UnalignedMoveMnemonics
  THEN IF OperandAt(call, 0).type \in {"MEMORY", "POINTER"} THEN {0}
       ELSE {0, 1}
  ELSE {}

\* every zydec_WriteRaw call of a translation, in order
TranslationWrites(call, ub) ==
  ExpandWrites(ExpandOperands(call, TranslationParts(call)), ub)

\* ------------------------------------------------------------------------
\* Buffer writer
\* ------------------------------------------------------------------------

\* zydec_WriteRaw with the capacity check off by one: a text one byte longer
\* than the remaining size passes
WriteRawOffByOne(buf, pos, rem, text) ==
  LET length == Len(text)
  IN  IF length > rem + 1
      THEN [ok |-> FALSE, buffer |-> buf, bufferPos |-> pos,
            remainingSize |-> rem, top |-> -1]
      ELSE [ok |-> TRUE,
            buffer |-> [i \in DOMAIN buf |->
                          IF i < pos \/ i > pos + length THEN buf[i]
                          ELSE IF i = pos + length THEN NUL
                          ELSE CharAt(text, i - pos)],
            bufferPos |-> pos + length,
            remainingSize |-> rem - length,
            top |-> pos + length]

\* zydec_WriteRaw counting the terminator against the remaining size: a text
\* that fills the remaining size exactly is rejected
WriteRawCountsTerminator(buf, pos, rem, text) ==
  LET length == Len(text)
  IN  IF length >= rem
      THEN [ok |-> FALSE, buffer |-> buf, bufferPos |-> pos,
            remainingSize |-> rem, top |-> -1]
      ELSE [ok |-> TRUE,
            buffer |-> [i \in DOMAIN buf |->
                          IF i < pos \/ i > pos + length THEN buf[i]
                          ELSE IF i = pos + length THEN NUL
                          ELSE CharAt(text, i - pos)],
            bufferPos |-> pos + length,
            remainingSize |-> rem - length,
            top |-> pos + length]

\* zydec_WriteRaw copying what fits of a text that is too long before it
\* returns false
WriteRawTruncates(buf, pos, rem, text) ==
  LET length == Len(text)
  IN  IF length > rem
      THEN [ok |-> FALSE,
            buffer |-> [i \in DOMAIN buf |->
                          IF i < pos \/ i > pos + rem THEN buf[i]
                          ELSE IF i = pos + rem THEN NUL
                          ELSE CharAt(text, i - pos)],
            bufferPos |-> pos, remainingSize |-> rem, top |-> pos + rem]
      ELSE [ok |-> TRUE,
            buffer |-> [i \in DOMAIN buf |->
                          IF i < pos \/ i > pos + length THEN buf[i]
                          ELSE IF i = pos + length THEN NUL
                          ELSE CharAt(text, i - pos)],
            bufferPos |-> pos + length,
            remainingSize |-> rem - length,
            top |-> pos + length]

\* zydec_WriteRaw on the writer state (the caller's array, the cursor as an
\* offset from its start, the remaining size): the new writer state, whether
\* the call returned true, and the highest offset memcpy stored to (-1: none)
zydec_WriteRaw(buf, pos, rem, text) ==
  LET length == Len(text)
  IN  IF length > rem
      THEN [ok |-> FALSE, buffer |-> buf, bufferPos |-> pos,
            remainingSize |-> rem, top |-> -1]
      ELSE [ok |-> TRUE,
            buffer |-> [i \in DOMAIN buf |->
                          IF i < pos \/ i > pos + length THEN buf[i]
                          ELSE IF i = pos + length THEN NUL
                          ELSE CharAt(text, i - pos)],
            bufferPos |-> pos + length,
            remainingSize |-> rem - length,
            top |-> pos + length]

\* the start of a translation without bufferPos[0] = '\0'
NoTerminateAtStart(buf) == buf

\* bufferPos[0] = '\0' at the start of a translation
TerminateAtStart(buf) == [i \in DOMAIN buf |-> IF i = 0 THEN NUL ELSE buf[i]]

\* the argument check without operandCount == 0
InvalidArgumentsButCount(c) ==
  \/ "pInstruction" \in c.null
  \/ "pOperands" \in c.null
  \/ "buffer" \in c.null
  \/ c.bufferCapacity = 0
  \/ "pHasTranslation" \in c.null

\* the argument check of zydec_TranslateInstructionWithoutContext
InvalidArguments(c) ==
  \/ "pInstruction" \in c.null
  \/ "pOperands" \in c.null
  \/ c.operandCount = 0
  \/ "buffer" \in c.null
  \/ c.bufferCapacity = 0
  \/ "pHasTranslation" \in c.null

\* ------------------------------------------------------------------------
\* State
\* ------------------------------------------------------------------------

VARIABLES
  pc,               \* "idle", "running", "done" (returned) or "aborted"
  call,             \* the arguments of the call in progress
  ub,               \* what the build makes of undefined behaviour in this call
  buffer,           \* the caller's array, indexed from 0
  bufferPos,        \* the cursor, as an offset from the start of the array
  remainingSize,
  pHasTranslation,  \* the caller's flag
  ret,              \* the value returned, once pc = "done"
  writes,           \* the zydec_WriteRaw calls still ahead, in order
  written,          \* the texts of the calls that returned true, in order
  hiWrite,          \* the highest offset of the array stored to so far (-1: none)
  lutReads,         \* the indices of RegisterNameLut read so far
  operandReads,     \* the indices i of the pOperands[i] read so far
  before            \* the caller's array and flag as they were before the call

vars ==
  <<pc, call, ub, buffer, bufferPos, remainingSize, pHasTranslation, ret,
    writes, written, hiWrite, lutReads, operandReads, before>>

Max(a, b) == IF a >= b THEN a ELSE b

\* the table entries read once the call `item` was made: RegisterNameLut[reg]
\* is the text argument of zydec_WriteRaw, which reads it
LutReadsAfter(reads, item) ==
  IF item.lut >= 0 THEN reads \cup {item.lut} ELSE reads

\* the operands read once the call `item` was made: zydec_WriteOperand reads
\* pOperand->type before any call it makes
OperandReadsAfter(reads, item) ==
  IF item.operand >= 0 THEN reads \cup {item.operand} ELSE reads

\* ------------------------------------------------------------------------
\* Inputs
\* ------------------------------------------------------------------------

\* the caller's array has 0 .. MaxSmallCapacity bytes, or LargeCapacity bytes
MaxSmallCapacity == 11

LargeCapacity == 160

\* the largest pInstruction->operand_count tried
MaxOperandCount == 3

Capacities == (0 .. MaxSmallCapacity) \cup {LargeCapacity}

\* x * k modulo 2^64 for a small k
U64MulSmall(x, k) ==
  LET p1 == x[1] * k
      p2 == x[2] * k + (p1 \div LimbBase)
      p3 == x[3] * k + (p2 \div LimbBase)
      p4 == x[4] * k + (p3 \div LimbBase)
  IN  <<p1 % LimbBase, p2 % LimbBase, p3 % LimbBase, p4 % LimbBase>>

RECURSIVE U64TenTo(_)
U64TenTo(n) == IF n = 0 THEN U64Of(1) ELSE U64MulSmall(U64TenTo(n - 1), 10)

U64Max == <<LimbBase - 1, LimbBase - 1, LimbBase - 1, LimbBase - 1>>

RegisterOperand(reg) == [type |-> "REGISTER", reg |-> reg]

MemoryOperand(type, segment, base, index, scale, has_displacement, value) ==
  [type |-> "MEMORY",
   mem |-> [type |-> type, segment |-> segment, base |-> base,
            index |-> index, scale |-> scale,
            disp |-> [has_displacement |-> has_displacement,
                      value |-> value]]]

ImmediateOperand(is_relative, is_signed, value) ==
  [type |-> "IMMEDIATE",
   imm |-> [is_relative |-> is_relative, is_signed |-> is_signed,
            value |-> value]]

\* an operand of a variant the formatter has no case for
PointerOperand == [type |-> "POINTER"]

\* register ids: none, "(i64)a", "data_segment", "uif" (the last entry) and
\* the first id past the table
RegNone == ZYDIS_REGISTER_NONE
RegA64 == 53
RegDataSegment == 201
RegLast == RegisterNameLutCount - 1
RegPastTable == RegisterNameLutCount

RegisterOperands ==
  {RegisterOperand(r) : r \in {RegNone, RegA64, RegLast, RegPastTable}}

MemoryOperands ==
  { MemoryOperand("MEM", RegDataSegment, RegA64, RegNone, 0, FALSE, U64Zero),
    MemoryOperand("MEM", RegDataSegment, RegA64, RegLast, 4, TRUE,
                  U64Neg(U64Of(5))),
    MemoryOperand("MEM", RegNone, RegLast, RegA64, 4, FALSE, U64Zero),
    MemoryOperand("MEM", RegNone, RegLast, RegLast, 1, FALSE, U64Zero),
    MemoryOperand("MEM", RegNone, RegLast, RegNone, 0, TRUE, U64Zero),
    MemoryOperand("MEM", RegNone, RegLast, RegNone, 0, TRUE, I64Min),
    MemoryOperand("MEM", RegPastTable, RegA64, RegNone, 0, FALSE, U64Zero),
    MemoryOperand("AGEN", RegNone, RegLast, RegA64, 2, TRUE, U64Of(8)),
    MemoryOperand("MIB", RegNone, RegA64, RegLast, 1, FALSE, U64Zero),
    MemoryOperand("INVALID", RegNone, RegA64, RegNone, 0, FALSE, U64Zero) }

ImmediateOperands ==
  { ImmediateOperand(TRUE, TRUE, U64Of(16)),
    ImmediateOperand(TRUE, TRUE, U64Neg(U64Of(16))),
    ImmediateOperand(TRUE, TRUE, U64Zero),
    ImmediateOperand(FALSE, FALSE, U64Zero),
    ImmediateOperand(FALSE, FALSE, U64Of(7)),
    ImmediateOperand(FALSE, FALSE, U64Max),
    ImmediateOperand(FALSE, TRUE, U64Neg(U64Of(5))),
    ImmediateOperand(FALSE, TRUE, I64Min) }

OperandPool ==
  RegisterOperands \cup MemoryOperands \cup ImmediateOperands
  \cup {PointerOperand}

\* first operands of the two-operand inputs
FirstOperandPool ==
  { RegisterOperand(RegLast), RegisterOperand(RegA64),
    MemoryOperand("MEM", RegDataSegment, RegA64, RegNone, 0, FALSE, U64Zero) }

\* what a read past the caller's operand array may find
BeyondPool == {RegisterOperand(RegLast), PointerOperand}

VirtualAddresses == {U64Zero, U64Of(4194304)}

OneOperandMnemonics ==
  {"CALL", "JMP", "JB", "JBE", "JCXZ", "JECXZ", "JL", "JLE", "JNB", "JNBE",
   "JNL", "JNLE", "JNO", "JNP", "JNS", "JNZ", "JO", "JP", "JS", "JZ"}

TwoOperandMnemonics ==
  {"MOV", "LEA", "TEST", "CMP", "SUB", "ADD", "AND", "OR"}

\* the vector mnemonics tried, one or two of each family
VectorMnemonics == {"MOVAPS", "MOVUPS", "VMOVD", "PAND"}

\* mnemonics the switch has no case for
UnsupportedMnemonics == {"NOP", "INVALID"}

Arguments(mnemonic, operand_count, pOperands, beyond, virtualAddress, null) ==
  [fn |-> "Translate", mnemonic |-> mnemonic, operand_count |-> operand_count,
   pOperands |-> pOperands, operandCount |-> Len(pOperands),
   beyond |-> beyond, virtualAddress |-> virtualAddress,
   bufferCapacity |-> 0, null |-> null]

\* the calls tried.  pInstruction->operand_count is read by the vector
\* families only and virtualAddress by relative immediates only, so they vary
\* where they are read.  Every mnemonic of the vector arithmetic family is
\* tried with two registers.
TranslateCalls ==
  { Arguments(m, 1, <<o>>, PointerOperand, va, {}) :
      m \in OneOperandMnemonics, o \in OperandPool, va \in VirtualAddresses }
  \cup
  { Arguments(m, 2, <<a, b>>, PointerOperand, U64Of(4194304), {}) :
      m \in TwoOperandMnemonics, a \in FirstOperandPool, b \in OperandPool }
  \cup
  { Arguments(m, 1, <<a>>, y, U64Zero, {}) :
      m \in TwoOperandMnemonics, a \in FirstOperandPool, y \in BeyondPool }
  \cup
  { Arguments(m, n, <<a, b>>, RegisterOperand(RegA64), U64Zero, {}) :
      m \in VectorMnemonics, n \in 0 .. MaxOperandCount,
      a \in FirstOperandPool, b \in OperandPool }
  \cup
  { Arguments(m, 2, <<RegisterOperand(RegLast), RegisterOperand(RegA64)>>,
              PointerOperand, U64Zero, {}) :
      m \in VectorArithmeticMnemonics }
  \cup
  { Arguments(m, 2, <<a, a>>, PointerOperand, U64Zero, {}) :
      m \in UnsupportedMnemonics, a \in FirstOperandPool }
  \cup
  { Arguments(m, 2, <<RegisterOperand(RegLast), RegisterOperand(RegLast)>>,
              PointerOperand, U64Zero, null) :
      m \in {"MOV", "NOP"},
      null \in {{"pInstruction"}, {"pOperands"}, {"buffer"},
                {"pHasTranslation"},
                {"pInstruction", "pOperands", "buffer", "pHasTranslation"}} }
  \cup
  { Arguments(m, 0, <<>>, RegisterOperand(RegLast), U64Zero, {}) :
      m \in {"MOV", "NOP"} }

\* whether rendering the call runs into undefined behaviour: a store below
\* the scratch array of a formatter, or the negation of INT64_MIN
HasUndefinedBehaviour(items) ==
  \E i \in DOMAIN items :
    \/ items[i].low < 0
    \/ items[i].fn = "WriteInt" /\ items[i].val = I64Min

UBChoices(items) ==
  IF HasUndefinedBehaviour(items) THEN UBOutcomes ELSE {"stored"}

\* ------------------------------------------------------------------------
\* Actions
\* ------------------------------------------------------------------------

\* the capacity of the caller's array
Capacity == Cardinality(DOMAIN buffer)

\* before any call: the caller's array and flag hold anything
Init ==
  /\ pc = "idle"
  /\ call = Arguments("NOP", 0, <<>>, PointerOperand, U64Zero, {})
  /\ ub = "stored"
  /\ \E n \in Capacities : buffer = [i \in 0 .. n - 1 |-> Garbage]
  /\ bufferPos = 0
  /\ remainingSize = 0
  /\ pHasTranslation \in BOOLEAN
  /\ ret = FALSE
  /\ writes = <<>>
  /\ written = <<>>
  /\ hiWrite = -1
  /\ lutReads = {}
  /\ operandReads = {}
  /\ before = [buffer |-> buffer, pHasTranslation |-> pHasTranslation]

\* the calls tried, with the capacity of the caller's array
CallsNow == {[c EXCEPT !.bufferCapacity = Capacity] : c \in TranslateCalls}

\* a call with arguments the check at the top rejects
Rejects(c) ==
  /\ InvalidArguments(c)
  /\ call' = c
  /\ pc' = "done"
  /\ ret' = FALSE
  /\ UNCHANGED <<ub, buffer, bufferPos, remainingSize, pHasTranslation,
                 writes, written, hiWrite, lutReads, operandReads, before>>

\* a call with a mnemonic of the default case
Unsupported(c) ==
  /\ ~InvalidArguments(c)
  /\ c.mnemonic \notin SupportedMnemonics
  /\ call' = c
  /\ bufferPos' = 0
  /\ remainingSize' = c.bufferCapacity - 1
  /\ buffer' = TerminateAtStart(buffer)
  /\ hiWrite' = 0
  /\ pHasTranslation' = FALSE
  /\ pc' = "done"
  /\ ret' = FALSE
  /\ UNCHANGED <<ub, writes, written, lutReads, operandReads, before>>

\* a call with a supported mnemonic, up to its first zydec_WriteRaw
Begins(c) ==
  /\ ~InvalidArguments(c)
  /\ c.mnemonic \in SupportedMnemonics
  /\ call' = c
  /\ bufferPos' = 0
  /\ remainingSize' = c.bufferCapacity - 1
  /\ buffer' = TerminateAtStart(buffer)
  /\ hiWrite' = 0
  /\ pHasTranslation' = TRUE
  /\ \E u \in UBChoices(TranslationWrites(c, "stored")) :
       /\ ub' = u
       /\ writes' = TranslationWrites(c, u)
  /\ operandReads' = TypeReads(c)
  /\ pc' = "running"
  /\ UNCHANGED <<ret, written, lutReads, before>>

TranslateRejects == pc = "idle" /\ \E c \in CallsNow : Rejects(c)

TranslateUnsupported == pc = "idle" /\ \E c \in CallsNow : Unsupported(c)

TranslateBegins == pc = "idle" /\ \E c \in CallsNow : Begins(c)

\* the next zydec_WriteRaw call returns true
WriteSucceeds ==
  /\ pc = "running"
  /\ writes # <<>>
  /\ Head(writes).kind = "write"
  /\ LET w == zydec_WriteRaw(buffer, bufferPos, remainingSize,
                             Head(writes).text)
     IN  /\ w.ok
         /\ buffer' = w.buffer
         /\ bufferPos' = w.bufferPos
         /\ remainingSize' = w.remainingSize
         /\ hiWrite' = Max(hiWrite, w.top)
  /\ lutReads' = LutReadsAfter(lutReads, Head(writes))
  /\ operandReads' = OperandReadsAfter(operandReads, Head(writes))
  /\ written' = Append(written, Head(writes).text)
  /\ writes' = Tail(writes)
  /\ pc' = IF Head(writes).trapAfter THEN "aborted" ELSE "running"
  /\ UNCHANGED <<call, ub, pHasTranslation, ret, before>>

\* the next zydec_WriteRaw call returns false, and ERROR_CHECK returns false
WriteFails ==
  /\ pc = "running"
  /\ writes # <<>>
  /\ Head(writes).kind = "write"
  /\ LET w == zydec_WriteRaw(buffer, bufferPos, remainingSize,
                             Head(writes).text)
     IN  /\ ~w.ok
         /\ buffer' = w.buffer
         /\ bufferPos' = w.bufferPos
         /\ remainingSize' = w.remainingSize
         /\ hiWrite' = Max(hiWrite, w.top)
  /\ lutReads' = LutReadsAfter(lutReads, Head(writes))
  /\ operandReads' = OperandReadsAfter(operandReads, Head(writes))
  /\ pc' = IF Head(writes).trapAfter THEN "aborted" ELSE "done"
  /\ ret' = FALSE
  /\ UNCHANGED <<call, ub, pHasTranslation, writes, written, before>>

\* an operand the formatter or the register resolver has no rendering for
RenderFails ==
  /\ pc = "running"
  /\ writes # <<>>
  /\ Head(writes).kind = "fail"
  /\ operandReads' = OperandReadsAfter(operandReads, Head(writes))
  /\ pc' = "done"
  /\ ret' = FALSE
  /\ UNCHANGED <<call, ub, buffer, bufferPos, remainingSize, pHasTranslation,
                 writes, written, hiWrite, lutReads, before>>

\* the build traps on undefined behaviour
Aborts ==
  /\ pc = "running"
  /\ writes # <<>>
  /\ Head(writes).kind = "trap"
  /\ pc' = "aborted"
  /\ UNCHANGED <<call, ub, buffer, bufferPos, remainingSize, pHasTranslation,
                 ret, writes, written, hiWrite, lutReads, operandReads,
                 before>>

\* every write went through: `return true`
ReturnsTrue ==
  /\ pc = "running"
  /\ writes = <<>>
  /\ pc' = "done"
  /\ ret' = TRUE
  /\ UNCHANGED <<call, ub, buffer, bufferPos, remainingSize, pHasTranslation,
                 writes, written, hiWrite, lutReads, operandReads, before>>

Next ==
  \/ TranslateRejects
  \/ TranslateUnsupported
  \/ TranslateBegins
  \/ WriteSucceeds
  \/ WriteFails
  \/ RenderFails
  \/ Aborts
  \/ ReturnsTrue

Spec == Init /\ [][Next]_vars

\* ------------------------------------------------------------------------
\* The formatters and the register resolver called on their own
\* ------------------------------------------------------------------------

\* the values the formatters are called with
FormatterValues ==
  { U64Zero, U64Of(1), U64Of(5), U64Of(9), U64Of(10), U64Of(15), U64Of(16),
    U64Of(99), U64Of(100), U64Of(255), U64Of(256), U64Of(4096),
    U64Of(65535), U64Of(65536),
    <<LimbBase - 1, LimbBase - 1, 0, 0>>,
    <<0, 0, 1, 0>>,
    U64Add(U64TenTo(19), U64Max),
    U64TenTo(19),
    U64Add(I64Min, U64Max),
    I64Min,
    U64Neg(U64Of(5)),
    U64Max }

\* the register ids the resolver is called with: the table and two ids past it
ResolverRegisters == 0 .. RegisterNameLutCount + 1

FormatterCall(fn, value, reg) ==
  [fn |-> fn, value |-> value, reg |-> reg, bufferCapacity |-> Capacity]

\* a call of one function on the writer state a translation starts with
Enter(c, items) ==
  /\ Capacity >= 1
  /\ call' = c
  /\ bufferPos' = 0
  /\ remainingSize' = Capacity - 1
  /\ buffer' = TerminateAtStart(buffer)
  /\ hiWrite' = 0
  /\ writes' = items
  /\ pc' = "running"
  /\ UNCHANGED <<pHasTranslation, ret, written, lutReads, operandReads,
                 before>>

CallWriteUInt ==
  /\ pc = "idle"
  /\ \E value \in FormatterValues :
       \E u \in UBChoices(zydec_WriteUInt(value, "stored")) :
         /\ ub' = u
         /\ Enter(FormatterCall("WriteUInt", value, -1),
                  zydec_WriteUInt(value, u))

CallWriteHex ==
  /\ pc = "idle"
  /\ \E value \in FormatterValues :
       \E u \in UBChoices(zydec_WriteHex(value, "stored")) :
         /\ ub' = u
         /\ Enter(FormatterCall("WriteHex", value, -1),
                  zydec_WriteHex(value, u))

CallWriteInt ==
  /\ pc = "idle"
  /\ \E value \in FormatterValues :
       \E u \in UBChoices(zydec_WriteInt(value, "stored")) :
         /\ ub' = u
         /\ Enter(FormatterCall("WriteInt", value, -1),
                  zydec_WriteInt(value, u))

CallWriteRegister ==
  /\ pc = "idle"
  /\ \E reg \in ResolverRegisters :
       /\ ub' = "stored"
       /\ Enter(FormatterCall("WriteRegister", U64Zero, reg),
                zydec_WriteRegister(reg))

NextFmt ==
  \/ CallWriteUInt
  \/ CallWriteHex
  \/ CallWriteInt
  \/ CallWriteRegister
  \/ WriteSucceeds
  \/ WriteFails
  \/ RenderFails
  \/ Aborts
  \/ ReturnsTrue

SpecFmt == Init /\ [][NextFmt]_vars

\* ------------------------------------------------------------------------
\* Properties
\* ------------------------------------------------------------------------

\* the byte at offset i of the array
ByteAt(buf, i) == IF i \in DOMAIN buf THEN buf[i] ELSE Garbage

\* the texts one after another
RECURSIVE Concat(_)
Concat(texts) == IF texts = <<>> THEN "" ELSE Head(texts) \o Concat(Tail(texts))

\* the preconditions of the entry point, as its interface states them
PreconditionsHold ==
  /\ call.fn = "Translate"
  /\ call.null = {}
  /\ call.operandCount >= 1
  /\ call.bufferCapacity >= 1

\* a translation is under way or over: the arguments passed the check
InTranslation == pc # "idle" /\ PreconditionsHold

\* the array after the texts were written one after another from offset 0:
\* their characters, the terminator, and behind it what the array held before
BufferHolding(texts) ==
  LET line == Concat(texts)
  IN  [i \in DOMAIN buffer |->
         IF i < Len(line) THEN CharAt(line, i)
         ELSE IF i = Len(line) THEN NUL
         ELSE before.buffer[i]]

\* C1: during a translation with capacity C >= 1, after every sequence of
\* zydec_WriteRaw calls that returned true or false, the cursor's offset plus
\* the remaining size is C - 1, the byte at the cursor is the terminator, and
\* no byte at an offset >= C was written.
C1_BufferSafety ==
  InTranslation =>
    /\ hiWrite < call.bufferCapacity
    /\ bufferPos + remainingSize = call.bufferCapacity - 1
    /\ ByteAt(buffer, bufferPos) = NUL

\* C1 witness: a translation that filled the array to its last usable byte and
\* then had a write rejected
C1_Witness ==
  /\ InTranslation
  /\ pc = "done"
  /\ ret = FALSE
  /\ Len(written) >= 2
  /\ remainingSize = 0
  /\ bufferPos = call.bufferCapacity - 1
  /\ writes # <<>>
  /\ Head(writes).kind = "write"

\* every call of the rendering is a zydec_WriteRaw call: no `return false` of
\* the formatter, no trap
Complete(items) ==
  \A i \in DOMAIN items : items[i].kind = "write" /\ ~items[i].trapAfter

\* the texts of the zydec_WriteRaw calls
Texts(items) == [i \in DOMAIN items |-> items[i].text]

\* the line the call renders when nothing limits the capacity
FullLine == Concat(Texts(TranslationWrites(call, ub)))

\* the call renders a complete line when nothing limits the capacity
RendersLine ==
  /\ PreconditionsHold
  /\ call.mnemonic \in SupportedMnemonics
  /\ Complete(TranslationWrites(call, ub))

\* C2: for an input whose complete line has length L, a translation with
\* capacity L + 1 returns true and leaves the terminator at offset L, and a
\* translation with capacity L (L >= 1) returns false.
C2_ExactCapacity ==
  (pc = "done" /\ RendersLine) =>
    /\ call.bufferCapacity = Len(FullLine) + 1 =>
         ret = TRUE /\ ByteAt(buffer, Len(FullLine)) = NUL
    /\ (call.bufferCapacity = Len(FullLine) /\ Len(FullLine) >= 1) =>
         ret = FALSE

\* C2 witness: a line that fits its array exactly, terminator included
C2_Witness ==
  /\ pc = "done"
  /\ RendersLine
  /\ call.bufferCapacity = Len(FullLine) + 1
  /\ Len(FullLine) >= 8
  /\ ret = TRUE

\* C3: an unsupported mnemonic with valid arguments returns false, sets
\* hasTranslation to false and leaves the empty string in the buffer,
\* whatever the buffer held before.
C3_Unsupported ==
  (pc = "done" /\ PreconditionsHold
     /\ call.mnemonic \notin SupportedMnemonics) =>
    /\ ret = FALSE
    /\ pHasTranslation = FALSE
    /\ ByteAt(buffer, 0) = NUL

\* C3 witness: an unsupported mnemonic, with the flag set and the buffer not
\* terminated before the call
C3_Witness ==
  /\ pc = "done"
  /\ PreconditionsHold
  /\ call.mnemonic \notin SupportedMnemonics
  /\ before.pHasTranslation = TRUE
  /\ before.buffer[0] # NUL

\* C4: with a violated precondition (a null pointer, operandCount = 0 or
\* bufferCapacity = 0) the call returns false and leaves the flag and every
\* byte of the buffer unchanged.
C4_RejectedUnchanged ==
  (pc = "done" /\ call.fn = "Translate" /\ ~PreconditionsHold) =>
    /\ ret = FALSE
    /\ pHasTranslation = before.pHasTranslation
    /\ buffer = before.buffer

\* C4 witness: operandCount = 0 with every pointer valid and a buffer of at
\* least one byte, the flag clear before the call
C4_Witness ==
  /\ pc = "done"
  /\ call.fn = "Translate"
  /\ call.operandCount = 0
  /\ call.null = {}
  /\ call.bufferCapacity >= 1
  /\ before.pHasTranslation = FALSE

\* C5: when the translation of a supported mnemonic fails on the way (a write
\* that exceeds the remaining size, or an operand without a rendering), the
\* call returns false with hasTranslation true, the failing call changed
\* nothing, nothing was written after it, and the buffer holds exactly the
\* texts written before it, a prefix of the rendering.
C5_PartialOutput ==
  (pc = "done" /\ PreconditionsHold /\ call.mnemonic \in SupportedMnemonics
     /\ ret = FALSE) =>
    LET full == TranslationWrites(call, ub)
        k == Len(written)
    IN  /\ pHasTranslation = TRUE
        /\ k < Len(full)
        /\ \A i \in 1 .. k : full[i].kind = "write" /\ written[i] = full[i].text
        /\ \/ full[k + 1].kind = "fail"
           \/ Len(full[k + 1].text) > call.bufferCapacity - 1 - Len(Concat(written))
        /\ buffer = BufferHolding(written)
        /\ bufferPos = Len(Concat(written))
        /\ remainingSize = call.bufferCapacity - 1 - Len(Concat(written))

\* C5 witness: a translation that wrote two texts or more before a write was
\* rejected for lack of room
C5_Witness ==
  /\ pc = "done"
  /\ PreconditionsHold
  /\ call.mnemonic \in SupportedMnemonics
  /\ ret = FALSE
  /\ Len(written) >= 2
  /\ writes # <<>>
  /\ Head(writes).kind = "write"
  /\ remainingSize > 0

\* the decimal digits of v, most significant first: "0" for 0
RECURSIVE RefDecimal(_)
RefDecimal(v) ==
  LET digit == SubSeq("0123456789", U64Mod(v, 10) + 1, U64Mod(v, 10) + 1)
  IN  IF U64GeSmall(v, 10) THEN RefDecimal(U64Div(v, 10)) \o digit ELSE digit

\* the uppercase hexadecimal digits of v, most significant first: "0" for 0
RECURSIVE RefHexDigits(_)
RefHexDigits(v) ==
  LET digit == SubSeq("0123456789ABCDEF", U64Mod(v, 16) + 1, U64Mod(v, 16) + 1)
  IN  IF U64GeSmall(v, 16) THEN RefHexDigits(U64Div(v, 16)) \o digit ELSE digit

\* the signed decimal of v read as int64_t, negation modulo 2^64
RefSigned(v) ==
  IF I64IsNegative(v) THEN "-" \o RefDecimal(U64Neg(v)) ELSE RefDecimal(v)

\* a call of the named formatter that has returned
Returned(fn) == pc = "done" /\ call.fn = fn

\* the text fits the array the formatter writes to
Fits(text) == call.bufferCapacity - 1 >= Len(text)

\* C6: zydec_WriteUInt renders every unsigned 64-bit value as its decimal
\* digits, most significant first, without leading zeros, and 0 as "0".
C6_UnsignedDecimal ==
  (Returned("WriteUInt") /\ Fits(RefDecimal(call.value))) =>
    ret = TRUE /\ CStr(buffer, 0) = RefDecimal(call.value)

\* C7: zydec_WriteHex renders every unsigned 64-bit value as "0x" and its
\* uppercase hexadecimal digits without leading zeros, and 0 as "0x0".
C7_Hexadecimal ==
  (Returned("WriteHex") /\ Fits("0x" \o RefHexDigits(call.value))) =>
    ret = TRUE /\ CStr(buffer, 0) = "0x" \o RefHexDigits(call.value)

\* C8: zydec_WriteInt renders every signed 64-bit value, 0 and -2^63 included,
\* as "-" and the unsigned decimal of its magnitude when it is negative and as
\* its unsigned decimal otherwise.
C8_SignedDecimal ==
  (Returned("WriteInt") /\ Fits(RefSigned(call.value))) =>
    ret = TRUE /\ CStr(buffer, 0) = RefSigned(call.value)

\* C9: for a register id within the name table zydec_WriteRegister writes
\* that id's entry, the same on every call, and succeeds when the remaining
\* size is at least the entry's length; for an id past the table it returns
\* false, reads no entry and writes nothing.
C9_RegisterResolver ==
  Returned("WriteRegister") =>
    IF call.reg \in 0 .. RegisterNameLutCount - 1
    THEN /\ lutReads = {call.reg}
         /\ Fits(RegisterNameLut[call.reg + 1]) =>
              /\ ret = TRUE
              /\ written = <<RegisterNameLut[call.reg + 1]>>
              /\ buffer = BufferHolding(<<RegisterNameLut[call.reg + 1]>>)
    ELSE /\ ret = FALSE
         /\ lutReads = {}
         /\ written = <<>>
         /\ buffer = BufferHolding(<<>>)
         /\ bufferPos = 0
         /\ remainingSize = call.bufferCapacity - 1

\* C9 witness: the first id past the table was rejected, with room for any
\* entry
C9_Witness ==
  /\ Returned("WriteRegister")
  /\ call.reg = RegisterNameLutCount
  /\ call.bufferCapacity = LargeCapacity
  /\ ret = FALSE

\* the assignment operator of a two-operand mnemonic
AssignmentOperator(m) ==
  CASE m = "MOV" -> " = "
    [] m = "LEA" -> " = &"
    [] m = "SUB" -> " -= "
    [] m = "ADD" -> " += "
    [] m = "AND" -> " &= "
    [] m = "OR" -> " |= "

\* a register operand whose id the name table holds
IsNamedRegister(operand) ==
  /\ operand.type = "REGISTER"
  /\ operand.reg \in 0 .. RegisterNameLutCount - 1

\* a returned translation of MOV, LEA, SUB, ADD, AND or OR with operands
\* [register A, register B]
RegisterAssignment ==
  /\ pc = "done"
  /\ PreconditionsHold
  /\ call.mnemonic \in {"MOV", "LEA", "SUB", "ADD", "AND", "OR"}
  /\ call.operandCount = 2
  /\ IsNamedRegister(call.pOperands[1])
  /\ IsNamedRegister(call.pOperands[2])

\* the line C10 expects: name(A) op name(B) ";"
AssignmentLine ==
  RegisterNameLut[call.pOperands[1].reg + 1]
    \o AssignmentOperator(call.mnemonic)
    \o RegisterNameLut[call.pOperands[2].reg + 1] \o ";"

\* C10: MOV, LEA, SUB, ADD, AND and OR with operands [register A, register B]
\* and sufficient capacity succeed and leave name(A), the operator (" = ",
\* " = &", " -= ", " += ", " &= ", " |= ") and name(B) followed by one ";".
C10_TwoOperandAssignment ==
  (RegisterAssignment /\ Fits(AssignmentLine)) =>
    /\ ret = TRUE
    /\ pHasTranslation = TRUE
    /\ CStr(buffer, 0) = AssignmentLine

\* C10 witness: LEA with two different registers in an array the line fits
C10_Witness ==
  /\ RegisterAssignment
  /\ Fits(AssignmentLine)
  /\ call.mnemonic = "LEA"
  /\ call.pOperands[1].reg = RegLast
  /\ call.pOperands[2].reg = RegA64
  /\ ret = TRUE

\* the last character of a text ("" for the empty text)
LastChar(text) == IF text = "" THEN "" ELSE SubSeq(text, Len(text), Len(text))

\* the buffer's null-terminated content
Content == CStr(buffer, 0)

\* a returned translation of TEST or CMP with operands [register A, register B]
RegisterCompare ==
  /\ pc = "done"
  /\ PreconditionsHold
  /\ call.mnemonic \in {"TEST", "CMP"}
  /\ call.operandCount = 2
  /\ IsNamedRegister(call.pOperands[1])
  /\ IsNamedRegister(call.pOperands[2])

\* the flags comment of a compare
FlagsComment(m) ==
  IF m = "TEST"
  THEN " // set carry_flag, parity_flag, zero_flag"
  ELSE " // set carry_flag, overflow_flag, signed_flag, zero_flag, aux_carry_flag and parity_flag"

\* the line C11 expects: compare(A, B) and the flags comment
CompareLine ==
  "compare(" \o RegisterNameLut[call.pOperands[1].reg + 1] \o ", "
    \o RegisterNameLut[call.pOperands[2].reg + 1] \o ")"
    \o FlagsComment(call.mnemonic)

\* C11: TEST with operands [register A, register B] renders
\* "compare(A, B) // set carry_flag, parity_flag, zero_flag" and CMP renders
\* "compare(A, B)" followed by its own flags comment; both return true and
\* the output does not end with a semicolon.
C11_CompareTemplate ==
  (RegisterCompare /\ Fits(CompareLine)) =>
    /\ ret = TRUE
    /\ pHasTranslation = TRUE
    /\ Content = CompareLine
    /\ LastChar(Content) # ";"

\* C11 witness: TEST of two different registers returned true
C11_Witness ==
  /\ RegisterCompare
  /\ Fits(CompareLine)
  /\ call.mnemonic = "TEST"
  /\ call.pOperands[1].reg = RegA64
  /\ call.pOperands[2].reg = RegLast
  /\ ret = TRUE

\* a returned translation of JZ with a single relative immediate operand
JumpIfZero ==
  /\ pc = "done"
  /\ PreconditionsHold
  /\ call.mnemonic = "JZ"
  /\ call.operandCount = 1
  /\ call.pOperands[1].type = "IMMEDIATE"
  /\ call.pOperands[1].imm.is_relative

\* the target of the jump: (virtualAddress + value) mod 2^64
JumpTarget == U64Add(call.virtualAddress, call.pOperands[1].imm.value)

\* "0x" and the hexadecimal digits of v, with "0x0" for 0
RefHex(v) == "0x" \o RefHexDigits(v)

\* "0x" and the hexadecimal digits of v, with no digit for 0: what
\* zydec_WriteHex writes
HexAsWritten(v) == IF v = U64Zero THEN "0x" ELSE "0x" \o RefHexDigits(v)

\* the line of JZ with the comment of line 199
JumpIfZeroLine ==
  "if (zero_flag) goto " \o HexAsWritten(JumpTarget) \o "; // if zero / equal"

\* the line of JZ as the claim words it
JumpIfZeroLineClaimed ==
  "if (zero_flag) goto " \o RefHex(JumpTarget) \o "; // if zero / not equal"

\* C12 (amended): JZ with a single relative immediate v at virtual address a
\* and sufficient capacity renders "if (zero_flag) goto ", the text
\* zydec_WriteHex writes for a + v, and "; // if zero / equal"; v = 0x10 at
\* a = 0x400000 gives "if (zero_flag) goto 0x400010; // if zero / equal".
C12_JumpIfZero ==
  (JumpIfZero /\ Fits(JumpIfZeroLine)) =>
    /\ ret = TRUE
    /\ Content = JumpIfZeroLine
    /\ (call.virtualAddress = U64Of(4194304)
          /\ call.pOperands[1].imm.value = U64Of(16)) =>
         Content = "if (zero_flag) goto 0x400010; // if zero / equal"

\* C12 witness: JZ to 0x10 at 0x400000 returned true
C12_Witness ==
  /\ JumpIfZero
  /\ Fits(JumpIfZeroLine)
  /\ call.virtualAddress = U64Of(4194304)
  /\ call.pOperands[1].imm.value = U64Of(16)
  /\ ret = TRUE

\* C12 as claimed: the comment reads "; // if zero / not equal"
C12_AsClaimed ==
  (JumpIfZero /\ Fits(JumpIfZeroLineClaimed)) =>
    ret = TRUE /\ Content = JumpIfZeroLineClaimed

\* a translation of a one-operand mnemonic that returned true with a memory
\* operand
MemoryRendered ==
  /\ pc = "done"
  /\ PreconditionsHold
  /\ call.mnemonic \in OneOperandMnemonics
  /\ call.operandCount = 1
  /\ call.pOperands[1].type = "MEMORY"
  /\ ret = TRUE

\* the texts written for the operand: what follows the template's first text
\* and precedes its last (")()" and ";" for CALL)
OperandTexts ==
  SubSeq(written, 2, Len(written) - (IF call.mnemonic = "CALL" THEN 2 ELSE 1))

\* only a sign and decimal digits
IsNumberText(text) ==
  \A i \in 1 .. Len(text) :
    SubSeq(text, i, i) \in {"-", "0", "1", "2", "3", "4", "5", "6", "7", "8", "9"}

\* the index term of a memory operand: " + index", or " + (index * scale)"
IndexTerm(mem) ==
  IF mem.scale # 1
  THEN <<" + ", "(", RegisterNameLut[mem.index + 1], " * ",
         RefDecimal(U64Of(mem.scale)), ")">>
  ELSE <<" + ", RegisterNameLut[mem.index + 1]>>

\* C13: a memory operand renders the " + index" term, as "(index * scale)"
\* when scale # 1, exactly when the mode is direct, there is no displacement
\* and an index register is present; with a displacement and an index only
\* " + " and the signed displacement follow the base; the indirect-pair and
\* address-generation modes never render an index term.
C13_IndexTerm ==
  MemoryRendered =>
    LET mem == call.pOperands[1].mem
        texts == OperandTexts
        middle == SubSeq(texts, 5, Len(texts) - 1)
    IN  /\ Len(texts) >= 5
        /\ SubSeq(texts, 1, 4) =
             << IF mem.type = "AGEN" THEN "(" ELSE "*(",
                RegisterNameLut[mem.segment + 1], ": ",
                RegisterNameLut[mem.base + 1] >>
        /\ texts[Len(texts)] = ")"
        /\ IF mem.type = "MEM" /\ ~mem.disp.has_displacement
              /\ mem.index # ZYDIS_REGISTER_NONE
           THEN middle = IndexTerm(mem)
           ELSE IF mem.disp.has_displacement
           THEN /\ Len(middle) >= 2
                /\ middle[1] = " + "
                /\ \A i \in 2 .. Len(middle) : IsNumberText(middle[i])
           ELSE middle = <<>>

\* C13 witness: a direct memory operand with a displacement and an index
\* register was rendered
C13_Witness ==
  /\ MemoryRendered
  /\ call.pOperands[1].mem.type = "MEM"
  /\ call.pOperands[1].mem.disp.has_displacement
  /\ call.pOperands[1].mem.index = RegLast
  /\ call.pOperands[1].mem.scale = 4

\* C14: for every mnemonic and every operandCount >= 1, also when the
\* instruction's operand_count differs from operandCount, the translator
\* reads pOperands[i] only for i < operandCount.
C14_ReadsWithinCount ==
  InTranslation => \A i \in operandReads : i < call.operandCount

\* the first position of pat in text, 0 if there is none
Find(text, pat) ==
  LET hits == {i \in 1 .. Len(text) - Len(pat) + 1 :
                 SubSeq(text, i, i + Len(pat) - 1) = pat}
  IN  IF hits = {} THEN 0 ELSE CHOOSE i \in hits : \A j \in hits : i <= j

\* the text before position i, and the text from position i + n on
Before(text, i) == SubSeq(text, 1, i - 1)
After(text, i, n) == SubSeq(text, i + n, Len(text))

FlagNames ==
  {"carry_flag", "zero_flag", "sign_flag", "overflow_flag", "parity_flag"}

\* the value of a predicate text under the flag assignment f, read as the C
\* expression it is: ! binds tighter than == and !=, those tighter than &&,
\* and && tighter than ||
RECURSIVE EvalUnary(_, _)
EvalUnary(text, f) ==
  IF Len(text) >= 1 /\ SubSeq(text, 1, 1) = "!"
  THEN ~EvalUnary(After(text, 1, 1), f)
  ELSE text \in FlagNames /\ f[text]

EvalEquality(text, f) ==
  LET ne == Find(text, " != ")
      eq == Find(text, " == ")
  IN  IF ne > 0
      THEN EvalUnary(Before(text, ne), f) # EvalUnary(After(text, ne, 4), f)
      ELSE IF eq > 0
      THEN EvalUnary(Before(text, eq), f) = EvalUnary(After(text, eq, 4), f)
      ELSE EvalUnary(text, f)

RECURSIVE EvalAnd(_, _)
EvalAnd(text, f) ==
  LET i == Find(text, " && ")
  IN  IF i > 0
      THEN EvalEquality(Before(text, i), f) /\ EvalAnd(After(text, i, 4), f)
      ELSE EvalEquality(text, f)

RECURSIVE EvalOr(_, _)
EvalOr(text, f) ==
  LET i == Find(text, " || ")
  IN  IF i > 0
      THEN EvalAnd(Before(text, i), f) \/ EvalOr(After(text, i, 4), f)
      ELSE EvalAnd(text, f)

\* the architectural condition of a conditional jump
Condition(m, f) ==
  CASE m = "JB" -> f["carry_flag"]
    [] m = "JBE" -> f["carry_flag"] \/ f["zero_flag"]
    [] m = "JL" -> f["sign_flag"] # f["overflow_flag"]
    [] m = "JLE" -> f["zero_flag"] \/ f["sign_flag"] # f["overflow_flag"]
    [] m = "JO" -> f["overflow_flag"]
    [] m = "JP" -> f["parity_flag"]
    [] m = "JS" -> f["sign_flag"]
    [] m = "JZ" -> f["zero_flag"]
    [] m = "JNB" -> ~f["carry_flag"]
    [] m = "JNBE" -> ~(f["carry_flag"] \/ f["zero_flag"])
    [] m = "JNL" -> ~(f["sign_flag"] # f["overflow_flag"])
    [] m = "JNLE" -> ~(f["zero_flag"] \/ f["sign_flag"] # f["overflow_flag"])
    [] m = "JNO" -> ~f["overflow_flag"]
    [] m = "JNP" -> ~f["parity_flag"]
    [] m = "JNS" -> ~f["sign_flag"]
    [] m = "JNZ" -> ~f["zero_flag"]

FlagJumps ==
  {"JB", "JBE", "JL", "JLE", "JO", "JP", "JS", "JZ", "JNB", "JNBE", "JNL",
   "JNLE", "JNO", "JNP", "JNS", "JNZ"}

\* a conditional jump on flags that returned true
FlagJumpRendered ==
  /\ pc = "done"
  /\ PreconditionsHold
  /\ call.mnemonic \in FlagJumps
  /\ ret = TRUE

\* the predicate of the line: what stands between "if (" and ") goto "
EmittedPredicate == SubSeq(written[1], 5, Len(written[1]) - 7)

\* C15: under each of the 32 assignments of the five flags, the predicate a
\* conditional jump emits has the value of the jump's architectural condition:
\* JB carry, JBE carry or zero, JL sign # overflow, JLE zero or sign #
\* overflow, JO overflow, JP parity, JS sign, JZ zero, and each JN.. the
\* negation of its counterpart.
C15_JumpPredicates ==
  FlagJumpRendered =>
    \A f \in [FlagNames -> BOOLEAN] :
      EvalOr(EmittedPredicate, f) = Condition(call.mnemonic, f)

\* whether pat occurs in text
Contains(text, pat) == Find(text, pat) > 0

\* how often the character c occurs in text
CountOf(text, c) == Cardinality({i \in 1 .. Len(text) : SubSeq(text, i, i) = c})

\* the conditional jumps that carry a comment, and those that do not
CommentedJumps ==
  {"JB", "JBE", "JL", "JLE", "JNB", "JNBE", "JNL", "JNLE", "JNZ", "JZ"}

PlainJumps == {"JCXZ", "JECXZ", "JNO", "JNP", "JNS", "JO", "JP", "JS"}

\* a translation of a supported mnemonic that returned true
Rendered ==
  /\ pc = "done"
  /\ PreconditionsHold
  /\ call.mnemonic \in SupportedMnemonics
  /\ ret = TRUE

\* "if (<pred>) goto <target>" opens the line
OpensWithJump(text) ==
  /\ SubSeq(text, 1, 4) = "if ("
  /\ Find(text, ") goto ") > 5

\* C16: on success JB, JBE, JL, JLE, JNB, JNBE, JNL, JNLE, JNZ and JZ render
\* "if (<pred>) goto <target>; // <name>" with nothing after the comment;
\* JCXZ, JECXZ, JNO, JNP, JNS, JO, JP and JS render
\* "if (<pred>) goto <target>;" with one semicolon at the end and no comment;
\* every other template that does not return early ends with exactly one
\* appended ";".
C16_CommentAsymmetry ==
  Rendered =>
    LET line == Content
        comment == Find(line, "; // ")
    IN  CASE call.mnemonic \in CommentedJumps ->
               /\ OpensWithJump(line)
               /\ comment > Find(line, ") goto ")
               /\ Len(line) >= comment + 5
               /\ written[Len(written)] = After(line, comment, 0)
               /\ CountOf(line, ";") = 1
               /\ LastChar(line) # ";"
          [] call.mnemonic \in PlainJumps ->
               /\ OpensWithJump(line)
               /\ LastChar(line) = ";"
               /\ CountOf(line, ";") = 1
               /\ ~Contains(line, "//")
          [] call.mnemonic \notin CommentedJumps \cup {"TEST", "CMP"} ->
               /\ written[Len(written)] = ";"
               /\ LastChar(line) = ";"
               /\ CountOf(line, ";") = 1
          [] OTHER -> TRUE

\* C16 witness: JS to a relative target returned true
C16_Witness ==
  /\ Rendered
  /\ call.mnemonic = "JS"
  /\ call.pOperands[1].type = "IMMEDIATE"
  /\ call.pOperands[1].imm.is_relative
  /\ call.pOperands[1].imm.value = U64Of(16)

\* a returned translation of JMP with a single operand
JumpReturned ==
  /\ pc = "done"
  /\ PreconditionsHold
  /\ call.mnemonic = "JMP"
  /\ call.operandCount = 1

\* the rendering C17 expects of an immediate
ImmediateText(imm) ==
  IF imm.is_relative THEN RefHex(U64Add(call.virtualAddress, imm.value))
  ELSE IF imm.is_signed THEN RefSigned(imm.value)
  ELSE RefDecimal(imm.value)

\* C17: a relative immediate renders as the hexadecimal of (virtualAddress +
\* value) mod 2^64, backward targets and a sum of 0 included; a non-relative
\* immediate renders as its signed decimal when it is signed and as its
\* unsigned decimal otherwise; an operand that is neither a register, a
\* memory location nor an immediate makes the translation fail.
C17_ImmediateRendering ==
  JumpReturned =>
    LET operand == call.pOperands[1]
    IN  CASE operand.type = "IMMEDIATE" ->
               Fits("goto " \o ImmediateText(operand.imm) \o ";") =>
                 /\ ret = TRUE
                 /\ Content = "goto " \o ImmediateText(operand.imm) \o ";"
          [] operand.type \notin {"REGISTER", "MEMORY", "IMMEDIATE"} ->
               ret = FALSE
          [] OTHER -> TRUE

\* a vector move with two operands, as many as the instruction counts, that
\* returned true
VectorMoveRendered ==
  /\ Rendered
  /\ call.mnemonic \in
       {"MOVAPS", "MOVAPD", "VMOVDQA", "VMOVDQA32", "VMOVDQA64", "MOVUPS",
        "MOVUPD", "MOVQ", "LDDQU", "VMOVD", "VMOVDQU", "VMOVDQU8",
        "VMOVDQU16", "VMOVDQU32", "VMOVDQU64"}
  /\ call.operandCount = 2
  /\ call.operand_count = 2

\* operand 0 or operand 1 is a memory location: the call form
IsCallForm ==
  \/ call.pOperands[1].type = "MEMORY"
  \/ call.pOperands[2].type = "MEMORY"

\* "_mm_aligned_" or "_mm_unaligned_" and "store" or "load"
CallFormName ==
  (IF call.mnemonic \in
        {"MOVAPS", "MOVAPD", "VMOVDQA", "VMOVDQA32", "VMOVDQA64"}
   THEN "_mm_aligned_" ELSE "_mm_unaligned_")
  \o (IF call.pOperands[1].type = "MEMORY" THEN "store" ELSE "load")

\* "_<suffix>(" with a suffix that is not empty
IsSuffixText(text) ==
  /\ Len(text) >= 3
  /\ SubSeq(text, 1, 1) = "_"
  /\ LastChar(text) = "("

\* C18: a vector move of the aligned or the unaligned family with a memory
\* location as operand 0 or operand 1 names its call "_mm_aligned_" or
\* "_mm_unaligned_", then "store" (operand 0 is memory) or "load", then
\* "_<suffix>(" with a non-empty suffix for the mnemonic's element type; with
\* no memory operand the line is "dst = src;".
C18_VectorMoveNaming ==
  VectorMoveRendered =>
    IF IsCallForm
    THEN /\ Len(written) >= 2
         /\ written[1] = CallFormName
         /\ IsSuffixText(written[2])
    ELSE /\ ~Contains(Content, "_mm_")
         /\ \E i \in 2 .. Len(written) - 1 : written[i] = " = "
         /\ written[Len(written)] = ";"
         /\ (call.pOperands[1].type = "REGISTER"
               /\ call.pOperands[2].type = "REGISTER") =>
              Content =
                RegisterNameLut[call.pOperands[1].reg + 1] \o " = "
                  \o RegisterNameLut[call.pOperands[2].reg + 1] \o ";"

\* a vector move in the call form that returned true
CallFormRendered ==
  /\ Rendered
  /\ call.mnemonic \in
       {"MOVAPS", "MOVAPD", "VMOVDQA", "VMOVDQA32", "VMOVDQA64", "MOVUPS",
        "MOVUPD", "MOVQ", "LDDQU", "VMOVD", "VMOVDQU", "VMOVDQU8",
        "VMOVDQU16", "VMOVDQU32", "VMOVDQU64"}
  /\ call.operandCount = 2
  /\ IsCallForm

\* the operand read at index i: past the caller's array, what lies behind it
OperandRead(i) ==
  IF i < call.operandCount THEN call.pOperands[i + 1] ELSE call.beyond

\* the rendering of the operand read at index i
Rendering(i) ==
  Concat(Texts(ExpandWrites(zydec_WriteOperand(OperandRead(i),
                                               call.virtualAddress), ub)))

\* the renderings of the operands at index i .. n - 1, separated by ", "
RECURSIVE ArgumentsFrom(_, _)
ArgumentsFrom(i, n) ==
  IF i >= n THEN ""
  ELSE (IF i > 1 THEN ", " ELSE "") \o Rendering(i) \o ArgumentsFrom(i + 1, n)

\* C19 (amended): in the call form the text between the call's "(" and its
\* closing ")" is the rendering of operand 0, then ", ", then the renderings
\* of the operands at index 1 .. operand_count - 1 separated by ", ".
C19_CallArguments ==
  CallFormRendered =>
    Content =
      written[1] \o written[2] \o Rendering(0) \o ", "
        \o ArgumentsFrom(1, call.operand_count) \o ");"

\* C19 witness: an aligned store of a register, two operands
C19_Witness ==
  /\ CallFormRendered
  /\ call.mnemonic = "MOVAPS"
  /\ call.operand_count = 2
  /\ call.pOperands[1].type = "MEMORY"
  /\ call.pOperands[2] = RegisterOperand(RegLast)

\* C19 as claimed: the call lists the operands from index 1 on and nothing
\* else
C19_AsClaimed ==
  CallFormRendered =>
    Content =
      written[1] \o written[2] \o ArgumentsFrom(1, call.operand_count) \o ");"

\* C20: for every unsigned 64-bit value, every character zydec_WriteUInt and
\* zydec_WriteHex store lands inside their scratch array, and the pointer
\* they hand to zydec_WriteRaw points into the array: the lowest index stored
\* to, which is the pointer handed on, is at least 0 and below the array's
\* size.
C20_ScratchSafety ==
  (pc = "running" /\ call.fn \in {"WriteUInt", "WriteHex"} /\ writes # <<>>) =>
    Head(writes).low \in
      0 .. (IF call.fn = "WriteUInt" THEN UIntScratchSize
            ELSE HexScratchSize) - 1

\* a vector arithmetic line that returned true
VectorArithmeticRendered ==
  /\ Rendered
  /\ call.mnemonic \in VectorArithmeticMnemonics

\* the text written right after the first " = " of a list of written texts
NameAfterAssignment(texts) ==
  LET at == {i \in 1 .. Len(texts) - 1 : texts[i] = " = "}
  IN  IF at = {} THEN ""
      ELSE texts[(CHOOSE i \in at : \A j \in at : i <= j) + 1]

\* the name this translation wrote
EmittedName == NameAfterAssignment(written)

\* the name the translation of the same instruction writes under mnemonic m
NameEmittedFor(m) ==
  NameAfterAssignment(Texts(TranslationWrites([call EXCEPT !.mnemonic = m], ub)))

\* the legacy and the V-prefixed mnemonic of one operation
LegacyAndVex(a, b) == b = "V" \o a \/ a = "V" \o b

\* two mnemonics of one operation that differ in the element width letter
\* only
DifferInElementWidth(a, b) ==
  LET Width == {"B", "W", "D", "Q"}
  IN  /\ a # b
      /\ Len(a) = Len(b)
      /\ SubSeq(a, 1, Len(a) - 1) = SubSeq(b, 1, Len(b) - 1)
      /\ LastChar(a) \in Width
      /\ LastChar(b) \in Width

\* C21: a translated instruction of the vector arithmetic family reads
\* "dst = <name>(args);", where <name> is never the placeholder "_mm_??_(", is
\* the name emitted for the other mnemonic of the same operation (legacy X
\* and V-prefixed VX), and differs from the name emitted for every mnemonic
\* of the family that differs from it in element width only.
C21_NamingConsistency ==
  VectorArithmeticRendered =>
    /\ EmittedName # "_mm_??_("
    /\ LastChar(EmittedName) = "("
    /\ Len(written) >= 2
    /\ written[Len(written) - 1] = ")"
    /\ written[Len(written)] = ";"
    /\ \A m \in VectorArithmeticMnemonics :
         /\ LegacyAndVex(call.mnemonic, m) => NameEmittedFor(m) = EmittedName
         /\ DifferInElementWidth(call.mnemonic, m) =>
              NameEmittedFor(m) # EmittedName

====
